---- MODULE Spec2Model ----
(***************************************************************************)
(* Agent-execution orchestration of ralphblaster: the Progress Store, the  *)
(* Agent Process Supervisor (executeRalph / executeRalphChanges), the      *)
(* Cancellation Registry (activeProcesses / cancelRalph) and the ticket    *)
(* routes that start, follow up and cancel a run.                          *)
(*                                                                         *)
(* Every `await` of the TypeScript code is a step boundary: an action is   *)
(* one run-to-completion segment of a handler between two suspensions.     *)
(* A file or database operation takes effect in the step that completes it.*)
(***************************************************************************)
EXTENDS Integers, Sequences, FiniteSets, TLC

VARIABLES
  ticket,           \* the ticket row (ralphStatus, status, ralphInstancePath, ralphLogs, ...)
  activeProcesses,  \* Cancellation Registry: <<>> or <<run id>> for the ticket id
  instances,        \* instance directories, indexed by instance path
  runs,             \* supervisor invocations: executeRalph / executeRalphChanges
  requests,         \* route handler invocations in flight
  served,           \* number of requests received so far
  cancelLog         \* the cancelRalph calls: how many, and the last one's
                    \* registry before, return value and registry after

vars == <<ticket, activeProcesses, instances, runs, requests, served, cancelLog>>

----------------------------------------------------------------------------
\* Bounds of the model
MaxLines == 2        \* stdout lines the agent writes in one run
MaxErrChunks == 1    \* stderr chunks the agent writes in one run
MaxCancels == 2      \* direct cancelRalph calls in the supervisor-level specification
MaxRequests == 2     \* route requests in the ticket-level specification
MaxRuns == 2         \* supervisor runs in the ticket-level specification
MaxTicks == 2        \* sendUpdate calls of one status stream

\* Program constants
LogCap == 100        \* progress.json keeps the last 100 log entries

----------------------------------------------------------------------------
\* Optional values: null is <<>>, a value v is <<v>>
None == <<>>
Some(v) == <<v>>
IsSome(o) == Len(o) > 0
Val(o) == o[1]

Last(s) == s[Len(s)]
Front(s) == SubSeq(s, 1, Len(s) - 1)
RemoveAt(s, i) == SubSeq(s, 1, i - 1) \o SubSeq(s, i + 1, Len(s))
SeqToSet(s) == {s[i] : i \in 1..Len(s)}

----------------------------------------------------------------------------
\* Text.  Standard output is a sequence of tokens; a chunk boundary may fall
\* between any two tokens.  NL is the newline, SP a blank.
NL == "\n"
SP == " "

\* lineBuffer.split('\n'): the segments between newlines, the last one being
\* the (possibly empty) text after the last newline.
RECURSIVE SplitNL(_, _, _)
SplitNL(buf, cur, acc) ==
  IF buf = <<>> THEN Append(acc, cur)
  ELSE IF Head(buf) = NL THEN SplitNL(Tail(buf), <<>>, Append(acc, cur))
  ELSE SplitNL(Tail(buf), Append(cur, Head(buf)), acc)

\* a split that hands over the text after the last newline as a line
SplitFlush(buf) == Append(SplitNL(buf, <<>>, <<>>), <<>>)

Split(buf) == SplitNL(buf, <<>>, <<>>)

\* String.prototype.trim
RECURSIVE TrimLeft(_)
TrimLeft(s) == IF s # <<>> /\ Head(s) = SP THEN TrimLeft(Tail(s)) ELSE s
RECURSIVE TrimRight(_)
TrimRight(s) == IF s # <<>> /\ Last(s) = SP THEN TrimRight(Front(s)) ELSE s
Trim(s) == TrimRight(TrimLeft(s))

\* The stream-json events the agent writes, one per line.  An event is the
\* two tokens "{" and a body; cut anywhere else it is not JSON.
EvSystem == <<"{", "system}">>         \* {"type":"system",...}
EvTool == <<"{", "tool_use}">>         \* assistant turn with a tool_use block
EvEmpty == <<"{", "empty}">>           \* assistant turn that yields no label
EvResult == <<"{", "result}">>         \* {"type":"result","is_error":false,...}
EvResultErr == <<"{", "is_error}">>    \* {"type":"result","is_error":true,...}
RawLine == <<"raw">>                   \* a line that is not JSON

\* JSON.parse(line) and the dispatch on event.type; "invalid" is the throw.
\* JSON.parse skips the white space around the value.
ParseLine(line) ==
  LET t == Trim(line) IN
  IF t = EvSystem THEN "system"
  ELSE IF t = EvTool THEN "assistant"
  ELSE IF t = EvEmpty THEN "silent"
  ELSE IF t = EvResult THEN "result"
  ELSE IF t = EvResultErr THEN "resultErr"
  ELSE "invalid"

\* logMessage synthesized for an event; <<>> is the empty string
LogMessage(kind) ==
  IF kind = "system" THEN <<"Session started">>
  ELSE IF kind = "assistant" THEN <<"Tool">>
  ELSE IF kind \in {"result", "resultErr"} THEN <<"Completed">>
  ELSE <<>>

\* report = { success: !event.is_error, ... }
BuildReport(kind) == [success |-> kind = "result", event |-> kind]

Msg(tag, body) == [tag |-> tag, body |-> body]

\* The body of the `for (const line of lines)` loop of the stdout handler, from
\* the current line up to the first `await appendLog`: blank lines and events
\* without a label are passed without suspending.
RECURSIVE ScanLines(_, _)

\* the loop with an empty catch block: a line that is not an event is dropped
ScanLinesDropRaw(lines, report) ==
  IF lines = <<>> THEN [hit |-> FALSE, report |-> report, rest |-> <<>>,
                        cb |-> Msg("", <<>>), store |-> Msg("", <<>>)]
  ELSE LET line == Head(lines)
           kind == ParseLine(line)
           rep == IF kind \in {"result", "resultErr"} THEN Some(BuildReport(kind)) ELSE report
       IN IF Trim(line) = <<>> \/ kind = "invalid" THEN ScanLines(Tail(lines), report)
          ELSE IF LogMessage(kind) = <<>> THEN ScanLines(Tail(lines), rep)
          ELSE [hit |-> TRUE, report |-> rep, rest |-> Tail(lines),
                cb |-> Msg("", LogMessage(kind)), store |-> Msg("", LogMessage(kind))]

ScanLines(lines, report) ==
  IF lines = <<>> THEN [hit |-> FALSE, report |-> report, rest |-> <<>>,
                        cb |-> Msg("", <<>>), store |-> Msg("", <<>>)]
  ELSE LET line == Head(lines)
           kind == ParseLine(line)
           rep == IF kind \in {"result", "resultErr"} THEN Some(BuildReport(kind)) ELSE report
       IN IF Trim(line) = <<>> THEN ScanLines(Tail(lines), report)
          ELSE IF kind = "invalid"
            THEN [hit |-> TRUE, report |-> report, rest |-> Tail(lines),
                  cb |-> Msg("", line), store |-> Msg("", Trim(line))]
          ELSE IF LogMessage(kind) = <<>> THEN ScanLines(Tail(lines), rep)
          ELSE [hit |-> TRUE, report |-> rep, rest |-> Tail(lines),
                cb |-> Msg("", LogMessage(kind)), store |-> Msg("", LogMessage(kind))]

----------------------------------------------------------------------------
\* Progress Store

\* createRalphInstance: progress.json as first written
InitialProgress ==
  [status |-> "LAUNCHING", phase |-> "Initialization",
   message |-> <<"Creating Ralph instance...">>,
   logs |-> <<Msg("", <<"Ralph instance created">>)>>]

\* updateProgress: the `existing` used when progress.json cannot be read
DefaultProgress ==
  [status |-> "RUNNING", phase |-> "", message |-> <<>>, logs |-> <<>>]

\* updateProgress: { ...existing, ...progress, logs: [...existing.logs, ...progress.logs] }
MergeProgress(existingOpt, partial) ==
  LET existing == IF IsSome(existingOpt) THEN Val(existingOpt) ELSE DefaultProgress
  IN [status |-> partial.status, phase |-> partial.phase, message |-> partial.message,
      logs |-> existing.logs \o partial.logs]

\* appendLog: progress.logs.push(...); keep the last 100
PushLog(progress, msg) ==
  LET pushed == Append(progress.logs, msg)
  IN [progress EXCEPT !.logs = IF Len(pushed) > LogCap
                                THEN SubSeq(pushed, Len(pushed) - LogCap + 1, Len(pushed))
                                ELSE pushed]

Partial(status, phase, message, logs) ==
  [status |-> status, phase |-> phase, message |-> message, logs |-> logs]

----------------------------------------------------------------------------
\* The ticket's log text (ralphLogs): a sequence of segments, each a piece of
\* text with its length in characters.
LogCeiling == 50000
LogWindow == 40000

TokenLen(t) == IF t = "big" THEN 30000 ELSE 8

RECURSIVE BodyLen(_)
BodyLen(body) == IF body = <<>> THEN 0 ELSE TokenLen(Head(body)) + BodyLen(Tail(body))

\* the characters of the string handed to onProgress for a message
Segment(m) == [text |-> m, len |-> BodyLen(m.body) + TokenLen(m.tag) + 1]
Marker(name, detail) == [text |-> Msg(name, detail), len |-> 20 + BodyLen(detail)]

RECURSIVE TextLen(_)
TextLen(text) == IF text = <<>> THEN 0 ELSE Head(text).len + TextLen(Tail(text))

\* currentLogs.slice(-n): the last n characters
RECURSIVE SliceLast(_, _)
SliceLast(text, n) ==
  IF text = <<>> \/ n <= 0 THEN <<>>
  ELSE IF Last(text).len >= n THEN <<[Last(text) EXCEPT !.len = n]>>
  ELSE Append(SliceLast(Front(text), n - Last(text).len), Last(text))

\* the text kept whole whatever its length
TruncateLogsKeepAll(text) == text

\* currentLogs.length > 50000 ? currentLogs.slice(-40000) : currentLogs
TruncateLogs(text) == IF TextLen(text) > LogCeiling THEN SliceLast(text, LogWindow) ELSE text

----------------------------------------------------------------------------
\* Names.  A name is a sequence of pieces: the words of the slug, "-", and
\* the pieces of new Date().toISOString() with ':' and '.' replaced by '-',
\* i.e. date, "T", clock, "-", milliseconds and Z.
Date == "2026-11-01"
Clock == "19-42-51"

\* the p-th call of createRalphInstance happens in a millisecond of its own
Millis(p) == ToString(p)
IsMillis(t) == \E i \in 0..9 : t = ToString(i)

\* timestamp = new Date().toISOString().replace(/[:.]/g, '-')
IsoTimestamp(p) == <<Date, "T", Clock, "-", Millis(p)>>

\* ticketSlug: the title in lower case, runs of other characters made "-"
TicketSlug == <<"fix", "-", "login">>

CharLen(t) == IF t = Date THEN 10 ELSE IF t = Clock THEN 8 ELSE IF IsMillis(t) THEN 4 ELSE 1

\* s.slice(0, n), for an n that falls between two pieces
RECURSIVE TakeChars(_, _)
TakeChars(s, n) ==
  IF s = <<>> \/ n < CharLen(Head(s)) THEN <<>>
  ELSE <<Head(s)>> \o TakeChars(Tail(s), n - CharLen(Head(s)))

\* createRalphInstance: instanceName = `${ticketSlug}-${timestamp}`
InstanceName(p) == TicketSlug \o <<"-">> \o IsoTimestamp(p)

\* createWorktree: `ralph/${instance.ticketSlug}-${instance.timestamp.slice(0, 19)}`
BranchName(p) == <<"ralph/">> \o TicketSlug \o <<"-">> \o TakeChars(IsoTimestamp(p), 19)

\* name.replace(/-\d{4}-\d{2}-\d{2}T.*$/, ''): the name up to the first "-"
\* that a date and "T" follow
RECURSIVE CutAtDate(_)
CutAtDate(name) ==
  IF name = <<>> THEN <<>>
  ELSE IF Len(name) >= 3 /\ name[1] = "-" /\ name[2] = Date /\ name[3] = "T" THEN <<>>
  ELSE <<Head(name)>> \o CutAtDate(Tail(name))

\* merge and reject: `ralph/${instanceName.replace(/-\d{4}-\d{2}-\d{2}T.*$/, '')}`
MergeBranchName(name) == <<"ralph/">> \o CutAtDate(name)

\* request-changes: `ralph/${instanceName.replace(/-\d{3}Z$/, '')}`
ChangesBranchName(name) ==
  <<"ralph/">> \o (IF Len(name) >= 2 /\ name[Len(name) - 1] = "-" /\ IsMillis(Last(name))
                    THEN SubSeq(name, 1, Len(name) - 2) ELSE name)

----------------------------------------------------------------------------
\* State constructors

\* The instance directory after createRalphInstance; `branch` is the branch
\* of the project's repository made for it
NewInstance ==
  [json |-> Some(InitialProgress), md |-> <<>>, report |-> None, reportMd |-> None,
   reportWrites |-> 0, changeRequest |-> FALSE, worktree |-> FALSE,
   prd |-> TRUE, name |-> <<>>, branch |-> <<>>]

NoHandler == [pc |-> "none", ok |-> FALSE, local |-> None, cap |-> None]

\* The locals of one executeRalph / executeRalphChanges invocation and of the
\* child process it supervises.
NewRun(kind, cb, inst) ==
  [kind |-> kind,              \* "fresh": executeRalph, "changes": executeRalphChanges
   cb |-> cb,                  \* the onProgress passed in: a route's callback or "direct"
   inst |-> inst,              \* instance.instancePath
   pc |-> IF kind = "changes" THEN "changeRequest" ELSE "updRead",
   local |-> None,             \* `existing` of the first updateProgress
   proc |-> "none",            \* none, live, exited, failed (spawn error), closed
   errored |-> FALSE,          \* the 'error' event has been emitted
   code |-> "",                \* exit code passed to 'close'
   kills |-> 0,                \* ralph.kill('SIGTERM') calls
   stream |-> <<>>,            \* what the process wrote to stdout
   out |-> <<>>,               \* written or to be written, not yet read as 'data'
   errLeft |-> 0,              \* stderr chunks not yet read
   lineBuffer |-> <<>>,
   report |-> None,
   handlers |-> <<>>,          \* suspended stdout / stderr handler invocations
   closeH |-> NoHandler,
   errorH |-> NoHandler,
   promise |-> "pending",      \* pending, resolved, rejected
   result |-> None,            \* the value passed to resolve
   error |-> <<>>,             \* the message of the Error passed to reject
   settle |-> [pc |-> "none", logs |-> <<>>],   \* the route's .then / .catch
   callbacks |-> <<>>,         \* onProgress invocations of the route in flight
   delivered |-> <<>>,         \* the arguments of the onProgress calls, in call order
   mdBase |-> 0,               \* length of progress.md when the agent was spawned
   logBase |-> 0]              \* length of the logs array when the agent was spawned

Terminal == {"COMPLETED", "FAILED"}
Active == {"LAUNCHING", "RUNNING"}

\* onProgress(m): the call itself, and for a route's callback its first await
OnProgress(run, m) ==
  [run EXCEPT !.delivered = Append(@, m),
              !.callbacks = IF run.cb = "direct" THEN @
                            ELSE Append(@, [pc |-> "read", log |-> m, logs |-> <<>>])]

\* resolve / reject: only the first settles the promise; the route's .then or
\* .catch starts with a database call.
Resolve(run) ==
  IF run.promise # "pending" THEN run
  ELSE [run EXCEPT !.promise = "resolved", !.result = run.report,
                   !.settle = [pc |-> IF run.cb = "direct" THEN "done" ELSE "then",
                               logs |-> <<>>]]

Reject(run, message) ==
  IF run.promise # "pending" THEN run
  ELSE [run EXCEPT !.promise = "rejected", !.error = message,
                   !.settle = [pc |-> IF run.cb = "direct" THEN "done" ELSE "catchRead",
                               logs |-> <<>>]]

\* The stdout handler from a list of complete lines to its next suspension:
\* either it awaits appendLog for one line or it returns.
Advance(run, lines, slot) ==
  LET sc == ScanLines(lines, run.report)
      h == [lines |-> sc.rest, pc |-> "appendFile", msg |-> sc.store, local |-> None]
      base == [run EXCEPT !.report = sc.report]
  IN IF sc.hit
       THEN OnProgress([base EXCEPT !.handlers = IF slot = 0 THEN Append(@, h)
                                                 ELSE [@ EXCEPT ![slot] = h]], sc.cb)
       ELSE [base EXCEPT !.handlers = IF slot = 0 THEN @ ELSE RemoveAt(@, slot)]

----------------------------------------------------------------------------
\* executeRalph / executeRalphChanges up to the spawn

\* executeRalphChanges: await fs.writeFile(change-request.md)
WriteChangeRequest(r) ==
  /\ runs[r].pc = "changeRequest"
  /\ instances' = [instances EXCEPT ![runs[r].inst].changeRequest = TRUE]
  /\ runs' = [runs EXCEPT ![r].pc = "updRead"]
  /\ UNCHANGED <<ticket, activeProcesses, requests, served, cancelLog>>

\* the first updateProgress: readFile
StartRead(r) ==
  /\ runs[r].pc = "updRead"
  /\ runs' = [runs EXCEPT ![r].pc = "updWrite", ![r].local = instances[runs[r].inst].json]
  /\ UNCHANGED <<ticket, activeProcesses, instances, requests, served, cancelLog>>

RunningPartial(kind) ==
  IF kind = "fresh"
    THEN Partial("RUNNING", "Execution", <<"Claude is implementing the PRD...">>, <<>>)
    ELSE Partial("RUNNING", "Changes", <<"Claude is implementing requested changes...">>,
                 <<Msg("", <<"Received change request">>)>>)

\* workDir = instance.worktreePath || projectPath.  The fresh-run route passes
\* what createWorktree returned: the worktree, or the project path when it
\* could not create one.  The follow-up route always passes
\* `${ralphInstancePath}/worktree`.
WorkDir(run) ==
  IF run.kind = "fresh" /\ ~instances[run.inst].worktree THEN "project" ELSE "worktree"

\* cwd of the spawn: the project directory exists, the worktree only if
\* createWorktree made it
WorkDirExists(run) == WorkDir(run) = "project" \/ instances[run.inst].worktree

\* the first updateProgress: writeFile; then the body of `new Promise`: spawn
\* the agent, write the prompt, activeProcesses.set(ticketId, ...), attach the
\* handlers.  A failed spawn is reported later by the 'error' event.
StartSpawn(r, streams, maxErr) ==
  /\ runs[r].pc = "updWrite"
  /\ LET merged == MergeProgress(runs[r].local, RunningPartial(runs[r].kind))
         run == [runs[r] EXCEPT !.pc = "running", !.logBase = Len(merged.logs),
                                !.mdBase = Len(instances[runs[r].inst].md)]
     IN
     /\ instances' = [instances EXCEPT ![run.inst].json = Some(merged)]
     /\ \/ /\ WorkDirExists(run)
           /\ \E s \in streams, e \in 0..maxErr :
                runs' = [runs EXCEPT ![r] = [run EXCEPT !.proc = "live", !.stream = s,
                                                        !.out = s, !.errLeft = e]]
        \/ runs' = [runs EXCEPT ![r] = [run EXCEPT !.proc = "failed"]]
  /\ activeProcesses' = Some(r)
  /\ UNCHANGED <<ticket, requests, served, cancelLog>>

----------------------------------------------------------------------------
\* The child process and its output handlers

\* ralph.stdout.on('data'): the handler up to its first await
StdoutData(r, n) ==
  /\ runs[r].proc \in {"live", "exited"}
  /\ n \in 1..Len(runs[r].out)
  /\ LET run == runs[r]
         parts == Split(run.lineBuffer \o SubSeq(run.out, 1, n))
         base == [run EXCEPT !.out = SubSeq(run.out, n + 1, Len(run.out)),
                             !.lineBuffer = Last(parts)]
     IN runs' = [runs EXCEPT ![r] = Advance(base, Front(parts), 0)]
  /\ UNCHANGED <<ticket, activeProcesses, instances, requests, served, cancelLog>>

\* ralph.stderr.on('data'): appendLog is called and not awaited, then onProgress
StderrData(r) ==
  /\ runs[r].proc \in {"live", "exited"}
  /\ runs[r].errLeft > 0
  /\ LET run == runs[r]
         h == [lines |-> <<>>, pc |-> "appendFile", msg |-> Msg("error", <<"warn">>),
               local |-> None]
     IN runs' = [runs EXCEPT ![r] = OnProgress([run EXCEPT !.errLeft = @ - 1,
                                                           !.handlers = Append(@, h)],
                                               Msg("stderr", <<"warn">>))]
  /\ UNCHANGED <<ticket, activeProcesses, instances, requests, served, cancelLog>>

\* appendLog: await fs.appendFile(progress.md)
AppendFile(r, i) ==
  /\ i \in 1..Len(runs[r].handlers)
  /\ runs[r].handlers[i].pc = "appendFile"
  /\ instances' = [instances EXCEPT ![runs[r].inst].md = Append(@, runs[r].handlers[i].msg)]
  /\ runs' = [runs EXCEPT ![r].handlers[i].pc = "readJson"]
  /\ UNCHANGED <<ticket, activeProcesses, requests, served, cancelLog>>

\* appendLog: await fs.readFile(progress.json); a missing file ends appendLog
ReadProgressJson(r, i) ==
  /\ i \in 1..Len(runs[r].handlers)
  /\ runs[r].handlers[i].pc = "readJson"
  /\ LET run == runs[r]
         json == instances[run.inst].json
     IN runs' = [runs EXCEPT ![r] =
                   IF IsSome(json)
                     THEN [run EXCEPT !.handlers[i].pc = "writeJson", !.handlers[i].local = json]
                     ELSE Advance(run, run.handlers[i].lines, i)]
  /\ UNCHANGED <<ticket, activeProcesses, instances, requests, served, cancelLog>>

\* appendLog: await fs.writeFile(progress.json); the handler then goes on to
\* the next line
WriteProgressJson(r, i) ==
  /\ i \in 1..Len(runs[r].handlers)
  /\ runs[r].handlers[i].pc = "writeJson"
  /\ LET run == runs[r]
         h == run.handlers[i]
     IN /\ instances' = [instances EXCEPT ![run.inst].json = Some(PushLog(Val(h.local), h.msg))]
        /\ runs' = [runs EXCEPT ![r] = Advance(run, h.lines, i)]
  /\ UNCHANGED <<ticket, activeProcesses, requests, served, cancelLog>>

\* the agent exits by itself, everything it wrote being in the pipe
ProcessExit(r, code) ==
  /\ runs[r].proc = "live"
  /\ runs' = [runs EXCEPT ![r].proc = "exited", ![r].code = code]
  /\ UNCHANGED <<ticket, activeProcesses, instances, requests, served, cancelLog>>

----------------------------------------------------------------------------
\* ralph.on('error') and ralph.on('close')

FailedPartial(message) == Partial("FAILED", "Error", message, <<>>)
CompletedPartial(kind) ==
  Partial("COMPLETED", "Done",
          IF kind = "fresh" THEN <<"Implementation completed successfully!">>
                            ELSE <<"Changes implemented successfully!">>, <<>>)
ExitMessage(code) == <<"Ralph exited with code", code>>
SpawnErrorMessage == <<"Failed to start Ralph", "spawn claude ENOENT">>

ErrorEvent(r) ==
  /\ runs[r].proc = "failed"
  /\ ~runs[r].errored
  /\ activeProcesses' = None
  /\ runs' = [runs EXCEPT ![r].errored = TRUE, ![r].errorH.pc = "read"]
  /\ UNCHANGED <<ticket, instances, requests, served, cancelLog>>

ErrorRead(r) ==
  /\ runs[r].errorH.pc = "read"
  /\ runs' = [runs EXCEPT ![r].errorH.pc = "write",
                          ![r].errorH.local = instances[runs[r].inst].json]
  /\ UNCHANGED <<ticket, activeProcesses, instances, requests, served, cancelLog>>

ErrorWrite(r) ==
  /\ runs[r].errorH.pc = "write"
  /\ LET run == runs[r] IN
     /\ instances' = [instances EXCEPT ![run.inst].json =
                        Some(MergeProgress(run.errorH.local, FailedPartial(SpawnErrorMessage)))]
     /\ runs' = [runs EXCEPT ![r] = Reject([run EXCEPT !.errorH.pc = "done"], SpawnErrorMessage)]
  /\ UNCHANGED <<ticket, activeProcesses, requests, served, cancelLog>>

\* the test without its second operand
CloseOkAnyReport(code, report) == code = "0"

\* code === 0 && report
CloseOk(code, report) == code = "0" /\ IsSome(report)

\* the close handler without activeProcesses.delete(ticketId)
CloseEventKeepsHandle(r) ==
  /\ \/ runs[r].proc = "exited" /\ runs[r].out = <<>> /\ runs[r].errLeft = 0
     \/ runs[r].proc = "failed" /\ runs[r].errored
  /\ LET run == runs[r]
         code == IF run.proc = "failed" THEN "-2" ELSE run.code
         ok == code = "0" /\ IsSome(run.report)
     IN runs' = [runs EXCEPT ![r] =
                   [run EXCEPT !.proc = "closed", !.code = code,
                               !.closeH = [pc |-> IF ok THEN "reportJson" ELSE "read",
                                           ok |-> ok, local |-> None, cap |-> run.report]]]
  /\ UNCHANGED <<ticket, activeProcesses, instances, requests, served, cancelLog>>

\* 'close' is emitted when the process has ended and its stdio streams have
\* been read to the end; after a failed spawn it follows 'error' with a
\* negative code.  The handler runs to its first await.
CloseEvent(r) ==
  /\ \/ runs[r].proc = "exited" /\ runs[r].out = <<>> /\ runs[r].errLeft = 0
     \/ runs[r].proc = "failed" /\ runs[r].errored
  /\ LET run == runs[r]
         code == IF run.proc = "failed" THEN "-2" ELSE run.code
         ok == CloseOk(code, run.report)
     IN runs' = [runs EXCEPT ![r] =
                   [run EXCEPT !.proc = "closed", !.code = code,
                               !.closeH = [pc |-> IF ok THEN "reportJson" ELSE "read",
                                           ok |-> ok, local |-> None, cap |-> run.report]]]
  /\ activeProcesses' = None
  /\ UNCHANGED <<ticket, instances, requests, served, cancelLog>>

\* await fs.writeFile(report.json, JSON.stringify(report)); the report.md text
\* is then built from `report` as it is now
CloseReportJson(r) ==
  /\ runs[r].closeH.pc = "reportJson"
  /\ instances' = [instances EXCEPT ![runs[r].inst].report = runs[r].closeH.cap,
                                    ![runs[r].inst].reportWrites = @ + 1]
  /\ runs' = [runs EXCEPT ![r].closeH.pc = "reportMd", ![r].closeH.cap = runs[r].report]
  /\ UNCHANGED <<ticket, activeProcesses, requests, served, cancelLog>>

\* await fs.writeFile(report.md)
CloseReportMd(r) ==
  /\ runs[r].closeH.pc = "reportMd"
  /\ instances' = [instances EXCEPT ![runs[r].inst].reportMd = runs[r].closeH.cap]
  /\ runs' = [runs EXCEPT ![r].closeH.pc = "read"]
  /\ UNCHANGED <<ticket, activeProcesses, requests, served, cancelLog>>

\* updateProgress of the close handler: readFile
CloseRead(r) ==
  /\ runs[r].closeH.pc = "read"
  /\ runs' = [runs EXCEPT ![r].closeH.pc = "write",
                          ![r].closeH.local = instances[runs[r].inst].json]
  /\ UNCHANGED <<ticket, activeProcesses, instances, requests, served, cancelLog>>

\* updateProgress of the close handler: writeFile; then resolve(report) or
\* reject(new Error(...))
CloseSettle(run) ==
  IF run.closeH.ok THEN Resolve([run EXCEPT !.closeH.pc = "done"])
  ELSE Reject([run EXCEPT !.closeH.pc = "done"], ExitMessage(run.code))

CloseWrite(r) ==
  /\ runs[r].closeH.pc = "write"
  /\ LET run == runs[r]
         partial == IF run.closeH.ok THEN CompletedPartial(run.kind)
                    ELSE FailedPartial(ExitMessage(run.code))
     IN /\ instances' = [instances EXCEPT ![run.inst].json =
                           Some(MergeProgress(run.closeH.local, partial))]
        /\ runs' = [runs EXCEPT ![r] = CloseSettle(run)]
  /\ UNCHANGED <<ticket, activeProcesses, requests, served, cancelLog>>

----------------------------------------------------------------------------
\* Cancellation Registry

\* ralph.kill('SIGTERM'): a live process ends with a null exit code, having
\* written some prefix of what it had left to write; a process that has
\* already ended is not affected.
Killed(run) ==
  IF run.proc # "live" THEN {[run EXCEPT !.kills = @ + 1]}
  ELSE {[run EXCEPT !.kills = @ + 1, !.proc = "exited", !.code = "null",
                    !.out = SubSeq(run.out, 1, k),
                    !.stream = SubSeq(run.stream, 1, Len(run.stream) - (Len(run.out) - k)),
                    !.errLeft = e] : k \in 0..Len(run.out), e \in 0..run.errLeft}

\* SIGTERM requests made so far
RECURSIVE Signals(_)
Signals(rs) == IF rs = <<>> THEN 0 ELSE Head(rs).kills + Signals(Tail(rs))

\* cancelRalph that signals the process and keeps the registration
cancelRalphKeepsHandle ==
  /\ IF IsSome(activeProcesses)
       THEN \E killed \in Killed(runs[Val(activeProcesses)]) :
              runs' = [runs EXCEPT ![Val(activeProcesses)] = killed]
       ELSE UNCHANGED runs
  /\ UNCHANGED activeProcesses
  /\ cancelLog' = [calls |-> cancelLog.calls + 1, before |-> activeProcesses,
                   returned |-> IsSome(activeProcesses), after |-> activeProcesses',
                   signals |-> Signals(runs') - Signals(runs)]

\* cancelRalph(ticketId)
cancelRalph ==
  /\ IF IsSome(activeProcesses)
       THEN /\ \E killed \in Killed(runs[Val(activeProcesses)]) :
                 runs' = [runs EXCEPT ![Val(activeProcesses)] = killed]
            /\ activeProcesses' = None
       ELSE UNCHANGED <<runs, activeProcesses>>
  /\ cancelLog' = [calls |-> cancelLog.calls + 1, before |-> activeProcesses,
                   returned |-> IsSome(activeProcesses), after |-> activeProcesses',
                   signals |-> Signals(runs') - Signals(runs)]

----------------------------------------------------------------------------
\* What the agent may write to standard output in one run

RECURSIVE Flatten(_)
Flatten(ls) == IF ls = <<>> THEN <<>> ELSE Head(ls) \o <<NL>> \o Flatten(Tail(ls))

\* sequences of at most n different lines out of a set of lines
RECURSIVE LineSeqs(_, _)
LineSeqs(lines, n) ==
  IF n = 0 THEN {<<>>}
  ELSE {<<>>} \cup UNION {{<<l>> \o rest : rest \in LineSeqs(lines \ {l}, n - 1)} : l \in lines}

\* every line terminated, or the last one still lacking its newline
Streams(lines, n) ==
  LET full == {Flatten(ls) : ls \in LineSeqs(lines, n)}
  IN full \cup {Front(s) : s \in full \ {<<>>}}

\* a line that is not JSON, an event without a label, and the result event
RunLines == {RawLine, EvEmpty, EvResult}
RunStreams == Streams(RunLines, MaxLines)

----------------------------------------------------------------------------
\* Supervisor-level specification: one call of executeRalph or of
\* executeRalphChanges on an existing instance, with a caller that only
\* records the onProgress calls, and direct calls of cancelRalph.

NoTicket ==
  [ralphStatus |-> "NULL", status |-> "UP_NEXT", ralphInstancePath |-> 0,
   ralphLogs |-> <<>>, ralphCompletedAt |-> FALSE, prd |-> TRUE]

WorktreeNote(created) ==
  Msg("", IF created THEN <<"Created git worktree">>
          ELSE <<"Note: Could not create worktree, working directly in project">>)

\* the instance directory after createRalphInstance and createWorktree
FreshInstance(created) ==
  [NewInstance EXCEPT !.worktree = created,
                         !.name = InstanceName(1),
                         !.branch = IF created THEN BranchName(1) ELSE <<>>,
                         !.md = <<WorktreeNote(created)>>,
                         !.json = Some(PushLog(InitialProgress, WorktreeNote(created)))]

\* the instance directory a finished executeRalph has left behind: either the
\* agent wrote one result event and exited with code 0, or it wrote nothing
\* and exited with code 1
UsedInstance(created, status) ==
  LET fresh == FreshInstance(created)
      running == MergeProgress(fresh.json, RunningPartial("fresh"))
      done == Msg("", LogMessage("result"))
  IN IF status = "COMPLETED"
       THEN [fresh EXCEPT !.json = Some(MergeProgress(Some(PushLog(running, done)),
                                                      CompletedPartial("fresh"))),
                          !.md = Append(@, done),
                          !.report = Some(BuildReport("result")),
                          !.reportMd = Some(BuildReport("result")),
                          !.reportWrites = 1]
       ELSE [fresh EXCEPT !.json = Some(MergeProgress(Some(running),
                                                      FailedPartial(ExitMessage("1"))))]

NoCancel == [calls |-> 0, before |-> None, returned |-> FALSE, after |-> None, signals |-> 0]

InitRun ==
  /\ ticket = NoTicket
  /\ activeProcesses = None
  /\ requests = <<>>
  /\ served = 0
  /\ cancelLog = NoCancel
  /\ \E created \in BOOLEAN :
       \/ /\ instances = <<FreshInstance(created)>>
          /\ runs = <<NewRun("fresh", "direct", 1)>>
       \/ /\ \E status \in Terminal : instances = <<UsedInstance(created, status)>>
          /\ runs = <<NewRun("changes", "direct", 1)>>

DirectCancel ==
  /\ cancelLog.calls < MaxCancels
  /\ cancelRalph
  /\ UNCHANGED <<ticket, instances, requests, served>>

\* the sizes of the next stdout chunk: any, or everything that is in the pipe
ChunkSizes(r, whole) ==
  IF whole THEN {Len(runs[r].out)} \ {0} ELSE 1..Len(runs[r].out)

\* the steps every run takes: start, spawn, the end of the process, the
\* 'error' and 'close' handlers
SuperviseStep(r, streams, maxErr) ==
  \/ WriteChangeRequest(r)
  \/ StartRead(r)
  \/ StartSpawn(r, streams, maxErr)
  \/ \E code \in {"0", "1"} : ProcessExit(r, code)
  \/ ErrorEvent(r)
  \/ ErrorRead(r)
  \/ ErrorWrite(r)
  \/ CloseEvent(r)
  \/ CloseRead(r)
  \/ CloseWrite(r)

\* the steps of a run whose agent writes to standard output
OutputStep(r, whole) ==
  \/ \E n \in ChunkSizes(r, whole) : StdoutData(r, n)
  \/ \E i \in 1..Len(runs[r].handlers) : AppendFile(r, i)
  \/ \E i \in 1..Len(runs[r].handlers) : ReadProgressJson(r, i)
  \/ \E i \in 1..Len(runs[r].handlers) : WriteProgressJson(r, i)
  \/ CloseReportJson(r)
  \/ CloseReportMd(r)

NextRun ==
  \/ \E r \in DOMAIN runs : SuperviseStep(r, RunStreams, 0)
  \/ \E r \in DOMAIN runs : OutputStep(r, FALSE)
  \/ DirectCancel

SpecRun == InitRun /\ [][NextRun]_vars

\* A follow-up run on an instance whose first run has filled the logs array:
\* the two entries of the start, then progress lines up to the cap
FullLogs == [i \in 1..LogCap |-> Msg("", <<"line", ToString(i)>>)]

FullInstance(status) ==
  LET used == UsedInstance(TRUE, status)
  IN [used EXCEPT !.json = Some([Val(used.json) EXCEPT !.logs = FullLogs]),
                  !.md = FullLogs]

InitFull ==
  /\ ticket = NoTicket
  /\ activeProcesses = None
  /\ requests = <<>>
  /\ served = 0
  /\ cancelLog = NoCancel
  /\ \E status \in Terminal : instances = <<FullInstance(status)>>
  /\ runs = <<NewRun("changes", "direct", 1)>>

SpecFull == InitFull /\ [][NextRun]_vars

\* The same call with an agent that also writes to standard error
ErrStreams == {<<>>, Flatten(<<RawLine>>)}

NextErr ==
  \/ \E r \in DOMAIN runs : SuperviseStep(r, ErrStreams, MaxErrChunks)
  \/ \E r \in DOMAIN runs : OutputStep(r, TRUE)
  \/ \E r \in DOMAIN runs : StderrData(r)

SpecErr == InitRun /\ [][NextErr]_vars

\* The same call with an agent that writes result events only, with and
\* without the error flag
ReportLines == {EvResult, EvResultErr}
ReportStreams == Streams(ReportLines, MaxLines)

NextReport ==
  \/ \E r \in DOMAIN runs : SuperviseStep(r, ReportStreams, 0)
  \/ \E r \in DOMAIN runs : OutputStep(r, FALSE)

SpecReport == InitRun /\ [][NextReport]_vars

----------------------------------------------------------------------------
\* The routes' onProgress callback and their .then / .catch

\* await prisma.ticket.findUnique; the fresh-run route returns when the
\* ticket is already COMPLETED or FAILED, the follow-up route has no such test
CallbackRead(r, j) ==
  /\ j \in 1..Len(runs[r].callbacks)
  /\ runs[r].callbacks[j].pc = "read"
  /\ runs' = [runs EXCEPT ![r].callbacks =
                IF runs[r].cb = "fresh" /\ ticket.ralphStatus \in Terminal
                  THEN RemoveAt(@, j)
                  ELSE [@ EXCEPT ![j].pc = "write", ![j].logs = ticket.ralphLogs]]
  /\ UNCHANGED <<ticket, activeProcesses, instances, requests, served, cancelLog>>

\* await prisma.ticket.update({ ralphLogs: truncatedLogs + log, ralphStatus: 'RUNNING' })
CallbackWrite(r, j) ==
  /\ j \in 1..Len(runs[r].callbacks)
  /\ runs[r].callbacks[j].pc = "write"
  /\ LET c == runs[r].callbacks[j] IN
     ticket' = [ticket EXCEPT !.ralphLogs = Append(TruncateLogs(c.logs), Segment(c.log)),
                              !.ralphStatus = "RUNNING"]
  /\ runs' = [runs EXCEPT ![r].callbacks = RemoveAt(@, j)]
  /\ UNCHANGED <<activeProcesses, instances, requests, served, cancelLog>>

\* .then: ralphStatus COMPLETED, ralphCompletedAt, status IN_TESTING
ThenUpdate(r) ==
  /\ runs[r].settle.pc = "then"
  /\ ticket' = [ticket EXCEPT !.ralphStatus = "COMPLETED", !.ralphCompletedAt = TRUE,
                              !.status = "IN_TESTING"]
  /\ runs' = [runs EXCEPT ![r].settle.pc = "done"]
  /\ UNCHANGED <<activeProcesses, instances, requests, served, cancelLog>>

\* .catch: findUnique of ralphLogs
CatchRead(r) ==
  /\ runs[r].settle.pc = "catchRead"
  /\ runs' = [runs EXCEPT ![r].settle = [pc |-> "catchWrite", logs |-> ticket.ralphLogs]]
  /\ UNCHANGED <<ticket, activeProcesses, instances, requests, served, cancelLog>>

FailedEntry(error) == Marker("=== FAILED ===", error)

\* .catch: ralphStatus FAILED, ralphLogs + "\n\n=== FAILED ===\n" + error.message
CatchWrite(r) ==
  /\ runs[r].settle.pc = "catchWrite"
  /\ ticket' = [ticket EXCEPT !.ralphStatus = "FAILED",
                              !.ralphLogs = Append(runs[r].settle.logs,
                                                   FailedEntry(runs[r].error))]
  /\ runs' = [runs EXCEPT ![r].settle.pc = "done"]
  /\ UNCHANGED <<activeProcesses, instances, requests, served, cancelLog>>

----------------------------------------------------------------------------
\* The routes: POST start-ralph, request-changes, cancel-ralph.  A request
\* that has been answered is forgotten.

NewRequest(kind, pc) == [kind |-> kind, pc |-> pc, logs |-> <<>>, inst |-> 0]

\* requests that can still start a run, and runs started
Starting == Len(SelectSeq(requests, LAMBDA q : q.kind \in {"start", "changes"}))

CanServe(kind, maxRuns) ==
  /\ served < MaxRequests
  /\ kind \in {"start", "changes"} => Starting + Len(runs) < maxRuns

\* the precondition tests without the one on ralphStatus
StartCheckNoStatusTest(cliAvailable, maxRuns) ==
  /\ CanServe("start", maxRuns)
  /\ served' = served + 1
  /\ IF ~cliAvailable \/ ~ticket.prd
       THEN UNCHANGED requests
       ELSE requests' = Append(requests, NewRequest("start", "create"))
  /\ UNCHANGED <<ticket, activeProcesses, instances, runs, cancelLog>>

\* start-ralph: isClaudeCliAvailable, settings, ticket.findUnique and the
\* tests on what was read; a failed test is answered with status 400
StartCheck(cliAvailable, maxRuns) ==
  /\ CanServe("start", maxRuns)
  /\ served' = served + 1
  /\ IF ~cliAvailable \/ ~ticket.prd \/ ticket.ralphStatus \in Active
       THEN UNCHANGED requests
       ELSE requests' = Append(requests, NewRequest("start", "create"))
  /\ UNCHANGED <<ticket, activeProcesses, instances, runs, cancelLog>>

\* createRalphInstance: the directory name is the title's slug and the time
\* in milliseconds.  A second call in the same millisecond, possible while
\* the first caller awaits git, names the same directory and rewrites its
\* files; mkdir is recursive and does not fail.
StartCreate(q, sameMs) ==
  /\ requests[q].kind = "start" /\ requests[q].pc = "create"
  /\ sameMs => \E o \in DOMAIN requests :
                 requests[o].pc = "worktree" /\ requests[o].inst = Len(instances)
  /\ LET last == Len(instances)
     IN IF sameMs
          THEN /\ instances' = [instances EXCEPT ![last].json = Some(InitialProgress),
                                                 ![last].md = <<>>]
               /\ requests' = [requests EXCEPT ![q].pc = "worktree", ![q].inst = last]
          ELSE /\ instances' = Append(instances,
                                      [NewInstance EXCEPT !.name = InstanceName(last + 1)])
               /\ requests' = [requests EXCEPT ![q].pc = "worktree", ![q].inst = last + 1]
  /\ UNCHANGED <<ticket, activeProcesses, runs, served, cancelLog>>

\* createWorktree whose catch block returns without appendLog
StartWorktreeSilent(q, gitOk) ==
  /\ requests[q].kind = "start" /\ requests[q].pc = "worktree"
  /\ LET p == requests[q].inst
         dir == instances[p]
         created == gitOk /\ ~dir.worktree
     IN instances' = [instances EXCEPT ![p] =
          IF created
            THEN [dir EXCEPT !.worktree = TRUE,
                             !.branch = BranchName(p),
                             !.md = Append(@, WorktreeNote(TRUE)),
                             !.json = IF IsSome(dir.json)
                                        THEN Some(PushLog(Val(dir.json), WorktreeNote(TRUE)))
                                        ELSE @]
            ELSE dir]
  /\ requests' = [requests EXCEPT ![q].pc = "launch"]
  /\ UNCHANGED <<ticket, activeProcesses, runs, served, cancelLog>>

\* createWorktree and its appendLog; `git worktree add` fails when the
\* directory is already a worktree
StartWorktree(q, gitOk) ==
  /\ requests[q].kind = "start" /\ requests[q].pc = "worktree"
  /\ LET p == requests[q].inst
         dir == instances[p]
         created == gitOk /\ ~dir.worktree
     IN instances' = [instances EXCEPT ![p] =
          [dir EXCEPT !.worktree = @ \/ created,
                      !.branch = IF created THEN BranchName(p) ELSE @,
                      !.md = Append(@, WorktreeNote(created)),
                      !.json = IF IsSome(dir.json)
                                 THEN Some(PushLog(Val(dir.json), WorktreeNote(created)))
                                 ELSE @]]
  /\ requests' = [requests EXCEPT ![q].pc = "launch"]
  /\ UNCHANGED <<ticket, activeProcesses, runs, served, cancelLog>>

\* prisma.ticket.update(LAUNCHING ...), then executeRalph(...) is called and
\* not awaited, and the response is sent
StartLaunch(q) ==
  /\ requests[q].kind = "start" /\ requests[q].pc = "launch"
  /\ ticket' = [ticket EXCEPT !.ralphInstancePath = requests[q].inst,
                              !.ralphStatus = "LAUNCHING", !.ralphLogs = <<>>,
                              !.status = "IN_PROGRESS"]
  /\ runs' = Append(runs, NewRun("fresh", "fresh", requests[q].inst))
  /\ requests' = RemoveAt(requests, q)
  /\ UNCHANGED <<activeProcesses, instances, served, cancelLog>>

ChangeRequestEntry == Marker("=== CHANGE REQUEST ===", <<"change">>)

\* request-changes: isClaudeCliAvailable, ticket.findUnique and the tests
ChangesCheck(cliAvailable, maxRuns) ==
  /\ CanServe("changes", maxRuns)
  /\ served' = served + 1
  /\ IF \/ ~cliAvailable \/ ticket.ralphInstancePath = 0 \/ ~ticket.prd
        \/ ticket.ralphStatus \in Active
       THEN UNCHANGED requests
       ELSE requests' = Append(requests,
                               [NewRequest("changes", "launch") EXCEPT
                                  !.logs = ticket.ralphLogs,
                                  !.inst = ticket.ralphInstancePath])
  /\ UNCHANGED <<ticket, activeProcesses, instances, runs, cancelLog>>

\* prisma.ticket.update(RUNNING ...), then executeRalphChanges(...) is called
\* and not awaited
ChangesLaunch(q) ==
  /\ requests[q].kind = "changes" /\ requests[q].pc = "launch"
  /\ ticket' = [ticket EXCEPT !.ralphStatus = "RUNNING",
                              !.ralphLogs = Append(requests[q].logs, ChangeRequestEntry),
                              !.status = "IN_PROGRESS"]
  /\ runs' = Append(runs, NewRun("changes", "changes", requests[q].inst))
  /\ requests' = RemoveAt(requests, q)
  /\ UNCHANGED <<activeProcesses, instances, served, cancelLog>>

\* cancel-ralph: ticket.findUnique, then cancelRalph(id)
CancelCheck ==
  /\ CanServe("cancel", 0)
  /\ served' = served + 1
  /\ cancelRalph
  /\ requests' = Append(requests, NewRequest("cancel", "update"))
  /\ UNCHANGED <<ticket, instances>>

\* cancel-ralph: prisma.ticket.update(FAILED, ralphCompletedAt)
CancelUpdate(q) ==
  /\ requests[q].kind = "cancel" /\ requests[q].pc = "update"
  /\ ticket' = [ticket EXCEPT !.ralphStatus = "FAILED", !.ralphCompletedAt = TRUE]
  /\ requests' = RemoveAt(requests, q)
  /\ UNCHANGED <<activeProcesses, instances, runs, served, cancelLog>>

\* reject: ticket.findUnique and the test on ralphInstancePath, then
\* `git checkout main && git branch -D` is started; its failure is ignored
RejectCheck ==
  /\ CanServe("reject", 0)
  /\ served' = served + 1
  /\ IF ticket.ralphInstancePath = 0
       THEN UNCHANGED requests
       ELSE requests' = Append(requests, NewRequest("reject", "update"))
  /\ UNCHANGED <<ticket, activeProcesses, instances, runs, cancelLog>>

\* reject: prisma.ticket.update back to UP_NEXT with the ralph fields null
RejectUpdate(q) ==
  /\ requests[q].kind = "reject" /\ requests[q].pc = "update"
  /\ ticket' = [ticket EXCEPT !.status = "UP_NEXT", !.ralphStatus = "NULL",
                              !.ralphInstancePath = 0, !.ralphCompletedAt = FALSE,
                              !.ralphLogs = <<>>]
  /\ requests' = RemoveAt(requests, q)
  /\ UNCHANGED <<activeProcesses, instances, runs, served, cancelLog>>

----------------------------------------------------------------------------
\* Ticket-level specifications.  The ticket is either new, or its first run
\* has finished and it waits for review.

ReviewTicket(status) ==
  [ralphStatus |-> status, status |-> IF status = "COMPLETED" THEN "IN_TESTING" ELSE "IN_PROGRESS",
   ralphInstancePath |-> 1,
   ralphLogs |-> IF status = "COMPLETED" THEN <<Segment(Msg("", LogMessage("result")))>>
                 ELSE <<FailedEntry(ExitMessage("1"))>>,
   ralphCompletedAt |-> status = "COMPLETED", prd |-> TRUE]

InitTicket ==
  /\ activeProcesses = None
  /\ runs = <<>>
  /\ requests = <<>>
  /\ served = 0
  /\ cancelLog = NoCancel
  /\ \/ /\ ticket \in {[NoTicket EXCEPT !.prd = prd] : prd \in BOOLEAN}
        /\ instances = <<>>
     \/ \E created \in BOOLEAN, status \in Terminal :
          /\ ticket = ReviewTicket(status)
          /\ instances = <<UsedInstance(created, status)>>

CatchStep(r) ==
  \/ CatchRead(r)
  \/ CatchWrite(r)

CallbackStep(r) ==
  \/ \E j \in 1..Len(runs[r].callbacks) : CallbackRead(r, j)
  \/ \E j \in 1..Len(runs[r].callbacks) : CallbackWrite(r, j)
  \/ ThenUpdate(r)

RequestStep(maxRuns, collide) ==
  \/ \E cliAvailable \in BOOLEAN : StartCheck(cliAvailable, maxRuns)
  \/ \E q \in DOMAIN requests, sameMs \in {FALSE, collide} : StartCreate(q, sameMs)
  \/ \E q \in DOMAIN requests, gitOk \in BOOLEAN : StartWorktree(q, gitOk)
  \/ \E q \in DOMAIN requests : StartLaunch(q)
  \/ \E cliAvailable \in BOOLEAN : ChangesCheck(cliAvailable, maxRuns)
  \/ \E q \in DOMAIN requests : ChangesLaunch(q)
  \/ CancelCheck
  \/ \E q \in DOMAIN requests : CancelUpdate(q)

\* The routes alone, with start requests that may reach createRalphInstance
\* within the same millisecond
NextCreate == RequestStep(MaxRuns, TRUE)

SpecCreate == InitTicket /\ [][NextCreate]_vars

\* Requests racing on one ticket, with an agent that writes nothing to
\* standard output, so that no run of this specification succeeds
Init ==
  /\ InitTicket
  /\ instances = <<>>

Next ==
  \/ RequestStep(MaxRuns, FALSE)
  \/ \E r \in DOMAIN runs : SuperviseStep(r, {<<>>}, 0)
  \/ \E r \in DOMAIN runs : CatchStep(r)

Spec == Init /\ [][Next]_vars

\* The same with reject requests
RejectStep ==
  \/ RejectCheck
  \/ \E q \in DOMAIN requests : RejectUpdate(q)

NextReview ==
  \/ RequestStep(MaxRuns, FALSE)
  \/ RejectStep
  \/ \E r \in DOMAIN runs : SuperviseStep(r, {<<>>}, 0)
  \/ \E r \in DOMAIN runs : CatchStep(r)

SpecReview == InitTicket /\ [][NextReview]_vars

\* One run started by a route, with an agent that writes a result event or
\* nothing, the route's callbacks, and cancel requests
RouteStreams == {<<>>, Flatten(<<EvResult>>)}

NextRoute ==
  \/ RequestStep(1, FALSE)
  \/ \E r \in DOMAIN runs : SuperviseStep(r, RouteStreams, 0)
  \/ \E r \in DOMAIN runs : OutputStep(r, TRUE)
  \/ \E r \in DOMAIN runs : CatchStep(r)
  \/ \E r \in DOMAIN runs : CallbackStep(r)

SpecRoute == InitTicket /\ [][NextRoute]_vars

\* One run started by a route, with an agent that writes long lines, enough
\* of them to take the ticket's log text over the ceiling
BigLine == <<"big">>
LongStreams == {Flatten([i \in 1..(MaxLines + 1) |-> BigLine])}

\* a fresh run or a follow-up run is started; nobody cancels it
LaunchStep ==
  \/ StartCheck(TRUE, 1)
  \/ \E q \in DOMAIN requests : StartCreate(q, FALSE)
  \/ \E q \in DOMAIN requests : StartWorktree(q, TRUE)
  \/ \E q \in DOMAIN requests : StartLaunch(q)
  \/ ChangesCheck(TRUE, 1)
  \/ \E q \in DOMAIN requests : ChangesLaunch(q)

NextLong ==
  \/ LaunchStep
  \/ \E r \in DOMAIN runs : SuperviseStep(r, LongStreams, 0)
  \/ \E r \in DOMAIN runs : OutputStep(r, TRUE)
  \/ \E r \in DOMAIN runs : CatchStep(r)
  \/ \E r \in DOMAIN runs : CallbackStep(r)

SpecLong == InitTicket /\ [][NextLong]_vars

\* One run started by a route, with an agent whose only output is a result
\* event that carries the error flag
FlaggedStreams == {Flatten(<<EvResultErr>>)}

NextFlagged ==
  \/ LaunchStep
  \/ \E r \in DOMAIN runs : SuperviseStep(r, FlaggedStreams, 0)
  \/ \E r \in DOMAIN runs : OutputStep(r, TRUE)
  \/ \E r \in DOMAIN runs : CatchStep(r)
  \/ \E r \in DOMAIN runs : CallbackStep(r)

SpecFlagged == InitTicket /\ [][NextFlagged]_vars

----------------------------------------------------------------------------
\* GET ralph-status: the status stream of the ticket

\* currentLogs.slice(n): the text without its first n characters
RECURSIVE DropChars(_, _)
DropChars(text, n) ==
  IF n <= 0 \/ text = <<>> THEN text
  ELSE IF Head(text).len <= n THEN DropChars(Tail(text), n - Head(text).len)
  ELSE <<[Head(text) EXCEPT !.len = @ - n]>> \o Tail(text)

\* progress.md as getProgressLogs reads it: the header createRalphInstance
\* wrote, then one "\n[timestamp] message" for each appendLog
MdLine(m) == [text |-> Msg("md", <<m.tag>> \o m.body), len |-> 27 + BodyLen(m.body)]
MdText(md) ==
  <<Marker("# Ralph Progress Log", <<>>)>> \o [i \in 1..Len(md) |-> MdLine(md[i])]

\* the locals of one GET: isActive, lastLogLength, what sendUpdate has read,
\* what the client has received in `logs` so far and how many messages; the
\* stream is cancelled once the client has gone away
NewStream ==
  [kind |-> "status", pc |-> "tick", logs |-> <<>>, inst |-> 0, status |-> "NULL",
   lastLogLength |-> 0, current |-> <<>>, shown |-> <<>>, ticks |-> 0,
   isActive |-> TRUE, cancelled |-> FALSE, sent |-> 0]

StatusOpen ==
  /\ \A q \in DOMAIN requests : requests[q].kind # "status"
  /\ requests' = Append(requests, NewStream)
  /\ UNCHANGED <<ticket, activeProcesses, instances, runs, served, cancelLog>>

\* sendUpdate: `if (!isActive) return`, else await prisma.ticket.findUnique
TickRead(q) ==
  /\ requests[q].kind = "status" /\ requests[q].pc = "tick"
  /\ requests[q].ticks < MaxTicks
  /\ requests' = IF ~requests[q].isActive
                   THEN [requests EXCEPT ![q].pc = "stopped"]
                   ELSE [requests EXCEPT ![q].pc = "files", ![q].logs = ticket.ralphLogs,
                                         ![q].inst = ticket.ralphInstancePath,
                                         ![q].status = ticket.ralphStatus]
  /\ UNCHANGED <<ticket, activeProcesses, instances, runs, served, cancelLog>>

\* sendUpdate that schedules the next poll whatever the status
TickSendKeepsPolling(q) ==
  /\ requests[q].kind = "status" /\ requests[q].pc = "files"
  /\ LET s == requests[q]
         progressLogs == IF s.inst = 0 THEN <<>> ELSE MdText(instances[s.inst].md)
         currentLogs == IF s.logs # <<>> THEN s.logs ELSE progressLogs
         newLogs == DropChars(currentLogs, s.lastLogLength)
     IN requests' = [requests EXCEPT ![q] =
          IF s.cancelled
            THEN [s EXCEPT !.pc = "stopped", !.lastLogLength = TextLen(currentLogs),
                           !.ticks = @ + 1]
            ELSE [s EXCEPT !.pc = "tick",
                           !.lastLogLength = TextLen(currentLogs),
                           !.current = currentLogs,
                           !.shown = @ \o newLogs,
                           !.ticks = @ + 1,
                           !.sent = @ + 1]]
  /\ UNCHANGED <<ticket, activeProcesses, instances, runs, served, cancelLog>>

\* sendUpdate: getProgressLogs, then currentLogs, newLogs, lastLogLength and
\* controller.enqueue of the message.  On a stream the client has cancelled
\* enqueue throws, and so does the enqueue of the catch block: nothing is
\* sent and sendUpdate ends.  After a terminal status the close timer is set
\* instead of the next poll.
TickSend(q) ==
  /\ requests[q].kind = "status" /\ requests[q].pc = "files"
  /\ LET s == requests[q]
         progressLogs == IF s.inst = 0 THEN <<>> ELSE MdText(instances[s.inst].md)
         currentLogs == IF s.logs # <<>> THEN s.logs ELSE progressLogs
         newLogs == DropChars(currentLogs, s.lastLogLength)
     IN requests' = [requests EXCEPT ![q] =
          IF s.cancelled
            THEN [s EXCEPT !.pc = "stopped", !.lastLogLength = TextLen(currentLogs),
                           !.ticks = @ + 1]
            ELSE [s EXCEPT !.pc = IF s.status \in Terminal THEN "closing" ELSE "tick",
                           !.lastLogLength = TextLen(currentLogs),
                           !.current = currentLogs,
                           !.shown = @ \o newLogs,
                           !.ticks = @ + 1,
                           !.sent = @ + 1]]
  /\ UNCHANGED <<ticket, activeProcesses, instances, runs, served, cancelLog>>

\* the timer set after a terminal status: isActive = false; controller.close()
StreamClose(q) ==
  /\ requests[q].kind = "status" /\ requests[q].pc = "closing"
  /\ requests' = [requests EXCEPT ![q].pc = "closed", ![q].isActive = FALSE]
  /\ UNCHANGED <<ticket, activeProcesses, instances, runs, served, cancelLog>>

\* cancel(): the client has closed the connection of a stream that is open
StreamCancel(q) ==
  /\ requests[q].kind = "status" /\ requests[q].pc # "closed"
  /\ ~requests[q].cancelled
  /\ requests' = [requests EXCEPT ![q].cancelled = TRUE, ![q].isActive = FALSE]
  /\ UNCHANGED <<ticket, activeProcesses, instances, runs, served, cancelLog>>

StreamStep ==
  \/ StatusOpen
  \/ \E q \in DOMAIN requests : TickRead(q)
  \/ \E q \in DOMAIN requests : TickSend(q)
  \/ \E q \in DOMAIN requests : StreamClose(q)

\* a fresh run watched by a status stream; the agent writes one line, or
\* three long lines that take the ticket's log over the ceiling
WatchedStreams == {Flatten(<<RawLine>>), Flatten(<<BigLine, BigLine, BigLine>>)}

StartStep ==
  \/ StartCheck(TRUE, 1)
  \/ \E q \in DOMAIN requests : StartCreate(q, FALSE)
  \/ \E q \in DOMAIN requests : StartWorktree(q, TRUE)
  \/ \E q \in DOMAIN requests : StartLaunch(q)

NextStream ==
  \/ StartStep
  \/ StreamStep
  \/ \E r \in DOMAIN runs : SuperviseStep(r, WatchedStreams, 0)
  \/ \E r \in DOMAIN runs : OutputStep(r, TRUE)
  \/ \E r \in DOMAIN runs : CatchStep(r)
  \/ \E r \in DOMAIN runs : CallbackStep(r)

SpecStream == Init /\ [][NextStream]_vars

\* A status stream beside the routes, with a client that may go away at any
\* moment; the ticket's status is what the routes write
NextPoll ==
  \/ RequestStep(MaxRuns, FALSE)
  \/ StreamStep
  \/ \E q \in DOMAIN requests : StreamCancel(q)

SpecPoll == InitTicket /\ [][NextPoll]_vars

----------------------------------------------------------------------------
\* Properties

Progress(p) == Val(instances[p].json)

\* the handlers of the run have all returned
Quiescent(r) ==
  /\ runs[r].proc = "closed"
  /\ runs[r].closeH.pc = "done"
  /\ runs[r].errorH.pc \in {"none", "done"}
  /\ runs[r].handlers = <<>>

\* the route's callbacks and its .then / .catch have returned as well
Settled(r) ==
  /\ Quiescent(r)
  /\ runs[r].callbacks = <<>>
  /\ runs[r].settle.pc = "done"

\* a subprocess that has been spawned and whose 'close' has not been emitted
Live(r) == runs[r].proc \in {"live", "exited"}

\* C1: at most one agent subprocess of the ticket is live at any time, under
\* every interleaving of start, follow-up and cancel requests and completions
AtMostOneLiveProcess == Cardinality({r \in DOMAIN runs : Live(r)}) <= 1

\* C2: the status of a Progress Record moves only along LAUNCHING -> RUNNING ->
\* {COMPLETED, FAILED}; once COMPLETED or FAILED it does not change any more
StatusStep(s, t) ==
  \/ s = t
  \/ s = "LAUNCHING" /\ t \in {"RUNNING", "COMPLETED", "FAILED"}
  \/ s = "RUNNING" /\ t \in Terminal

StatusMovesForward ==
  [][\A p \in DOMAIN instances :
       IsSome(instances[p].json) =>
         StatusStep(Progress(p).status, Val(instances'[p].json).status)]_vars

\* the complete (newline-terminated) lines of a stream
CompleteLines(stream) == Front(Split(stream))

ResultLines(stream) ==
  SelectSeq(CompleteLines(stream), LAMBDA l : ParseLine(l) \in {"result", "resultErr"})

\* C3: when the agent has written a complete result event and exits with code
\* 0, the finished run has written report.json and report.md, the Progress
\* Record is COMPLETED and the promise is resolved with the Report of that
\* event, whatever precedes the result line and however stdout is chunked
ResultRunCompletes ==
  \A r \in DOMAIN runs :
    (Quiescent(r) /\ runs[r].code = "0" /\ ResultLines(runs[r].stream) # <<>>) =>
      LET report == Some(BuildReport(ParseLine(Last(ResultLines(runs[r].stream)))))
      IN /\ instances[runs[r].inst].report = report
         /\ instances[runs[r].inst].reportMd = report
         /\ Progress(runs[r].inst).status = "COMPLETED"
         /\ runs[r].promise = "resolved"
         /\ runs[r].result = report

\* C4: a run that ends otherwise than with exit code 0 and a parsed result
\* writes FAILED with a message naming the exit code or the error and rejects
\* its promise; a promise is never resolved without a parsed Report
FailureHandled ==
  \A r \in DOMAIN runs :
    /\ runs[r].promise = "resolved" =>
         IsSome(runs[r].result) /\ runs[r].code = "0" /\ runs[r].closeH.ok
    /\ (runs[r].closeH.pc = "done" /\ ~(runs[r].code = "0" /\ IsSome(runs[r].closeH.cap))) =>
         /\ runs[r].promise = "rejected"
         /\ runs[r].error \in {ExitMessage(runs[r].code), SpawnErrorMessage}
    /\ runs[r].errorH.pc = "done" =>
         runs[r].promise = "rejected" /\ runs[r].error \in {ExitMessage("-2"), SpawnErrorMessage}

FailureWritten ==
  \A r \in DOMAIN runs :
    /\ (runs[r].closeH.pc = "write" /\ runs'[r].closeH.pc = "done"
          /\ ~(runs[r].code = "0" /\ IsSome(runs[r].report))) =>
         /\ Val(instances'[runs[r].inst].json).status = "FAILED"
         /\ Val(instances'[runs[r].inst].json).message = ExitMessage(runs[r].code)
    /\ (runs[r].errorH.pc = "write" /\ runs'[r].errorH.pc = "done") =>
         /\ Val(instances'[runs[r].inst].json).status = "FAILED"
         /\ Val(instances'[runs[r].inst].json).message = SpawnErrorMessage

AbnormalEndFails == []FailureHandled /\ [][FailureWritten]_vars

\* a cancelled run has failed: FAILED written, promise rejected with the null code
CancelledRunFailed ==
  \E r \in DOMAIN runs :
    /\ Quiescent(r) /\ runs[r].kills > 0 /\ runs[r].code = "null"
    /\ runs[r].promise = "rejected" /\ runs[r].error = ExitMessage("null")
    /\ Progress(runs[r].inst).status = "FAILED"

IsPrefix(s, t) == Len(s) <= Len(t) /\ s = SubSeq(t, 1, Len(s))

\* the progress lines of a stream, as handed to onProgress and as stored
RECURSIVE Expected(_, _)
Expected(lines, stored) ==
  LET sc == ScanLines(lines, None)
  IN IF ~sc.hit THEN <<>>
     ELSE <<IF stored THEN sc.store ELSE sc.cb>> \o Expected(sc.rest, stored)

Appended(r) ==
  SubSeq(instances[runs[r].inst].md, runs[r].mdBase + 1, Len(instances[runs[r].inst].md))

\* C5: the lines passed to onProgress and the lines appended to the Progress
\* Store are each in the order in which the agent wrote them
ProgressIsFifo ==
  \A r \in DOMAIN runs :
    runs[r].pc = "running" =>
      /\ IsPrefix(runs[r].delivered, Expected(CompleteLines(runs[r].stream), FALSE))
      /\ IsPrefix(Appended(r), Expected(CompleteLines(runs[r].stream), TRUE))

Count(s, x) == Len(SelectSeq(s, LAMBDA y : y = x))

\* C6: no read-modify-write of progress.json by the run is lost: once the run
\* is quiescent every appended line is in the logs array exactly once and the
\* stored status is the one written last
NoLostProgressWrite ==
  \A r \in DOMAIN runs :
    Quiescent(r) =>
      LET logs == Progress(runs[r].inst).logs
          mine == SubSeq(logs, runs[r].logBase + 1, Len(logs))
      IN /\ \A m \in SeqToSet(Appended(r)) \cup SeqToSet(mine) :
              Count(mine, m) = Count(Appended(r), m)
         /\ Progress(runs[r].inst).status =
              IF runs[r].closeH.ok THEN "COMPLETED" ELSE "FAILED"

\* C7: once the .then of a resolved run has written COMPLETED, no progress
\* callback of that run sets ralphStatus back to RUNNING
Completed(r) ==
  runs[r].promise = "resolved" /\ runs[r].settle.pc = "done"

CompletedStays ==
  [][\A r \in DOMAIN runs :
       (Completed(r) /\ ticket.ralphStatus = "COMPLETED") =>
         ticket'.ralphStatus # "RUNNING"]_vars

\* C8: when the promise has rejected and the run has settled, the ticket is
\* FAILED, its log text ends with the FAILED entry carrying the error message,
\* and the workflow status has not advanced to IN_TESTING
RejectedRunRecorded ==
  \A r \in DOMAIN runs :
    (Settled(r) /\ runs[r].promise = "rejected" /\ requests = <<>>) =>
      /\ ticket.ralphStatus = "FAILED"
      /\ ticket.ralphLogs # <<>> /\ Last(ticket.ralphLogs) = FailedEntry(runs[r].error)
      /\ ticket.status # "IN_TESTING"

\* C9: after a cancel request has been processed and the cancelled run has
\* settled, ralphStatus is FAILED
CancelledTicketFailed ==
  (/\ cancelLog.calls > 0 /\ cancelLog.returned
   /\ requests = <<>>
   /\ \A r \in DOMAIN runs : Settled(r)) =>
    ticket.ralphStatus = "FAILED"

\* C10: cancelRalph without a registered handle returns false, leaves the
\* registry as it is and sends no signal; with a handle it sends one signal,
\* removes the registration and returns true, so that the call that follows
\* it finds no handle and returns false
CancelContract ==
  cancelLog.calls > 0 =>
    /\ cancelLog.returned = IsSome(cancelLog.before)
    /\ cancelLog.after = None
    /\ cancelLog.signals = IF IsSome(cancelLog.before) THEN 1 ELSE 0
    /\ IsSome(cancelLog.before) => runs[Val(cancelLog.before)].kills > 0

\* a second call right after a successful one: it returned false
SecondCancelReturnsFalse ==
  /\ cancelLog.calls = 2 /\ ~cancelLog.returned /\ cancelLog.signals = 0
  /\ \E r \in DOMAIN runs : runs[r].kills = 1

\* the run's agent has been spawned and its 'close' has not been handled, and
\* no cancelRalph has signalled it
Uncancelled(r) == Live(r) /\ runs[r].kills = 0

\* C11: a live run that has not been cancelled has its own kill handle in the
\* registry from its spawn to its close: no other run replaces or removes it
OwnHandleRegistered ==
  \A r \in DOMAIN runs : Uncancelled(r) => activeProcesses = Some(r)

\* the 'close' or the 'error' handler of the run has started
Ended(r) == runs[r].closeH.pc # "none" \/ runs[r].errorH.pc # "none"

\* C12: once a run has ended, on whichever exit path, the registry holds no
\* handle of its process: no entry refers to a process that has closed
NoHandleOfClosedProcess ==
  /\ \A r \in DOMAIN runs : Ended(r) => activeProcesses # Some(r)
  /\ IsSome(activeProcesses) => runs[Val(activeProcesses)].proc # "closed"

\* a run has ended with exit code 0 and a report and the registry is empty
EndedRunDeregistered ==
  /\ activeProcesses = None
  /\ \E r \in DOMAIN runs : Quiescent(r) /\ runs[r].closeH.ok /\ runs[r].kills = 0

\* a request has been received and answered in the same step: it was rejected
Rejected == served' = served + 1 /\ requests' = requests

\* a start or follow-up request has passed its precondition tests
Accepted(kind) ==
  /\ served' = served + 1
  /\ Len(requests') = Len(requests) + 1
  /\ Last(requests').kind = kind

\* C13: a start or follow-up request that fails a precondition is rejected
\* with no instance directory created, no ticket field written, no process
\* spawned and no registry entry added; a request is not accepted without
\* requirements text, with ralphStatus LAUNCHING or RUNNING, or, for a
\* follow-up, without an instance path
RejectedLeavesNoTrace ==
  [][/\ Rejected => UNCHANGED <<ticket, instances, runs, activeProcesses, cancelLog>>
     /\ Accepted("start") => ticket.prd /\ ticket.ralphStatus \notin Active
     /\ Accepted("changes") =>
          ticket.prd /\ ticket.ralphStatus \notin Active /\ ticket.ralphInstancePath # 0]_vars

\* a second request has been rejected while the first one's run is active
RejectedWhileActive ==
  /\ served = 2 /\ requests = <<>>
  /\ Len(runs) = 1 /\ Len(instances) = 1
  /\ ticket.ralphStatus \in Active

\* C14: the logs array of a Progress Record never has more than 100 entries,
\* whether they are added by updateProgress or by appendLog, also in a
\* follow-up run on an instance whose array is full
LogCapRespected ==
  \A p \in DOMAIN instances :
    IsSome(instances[p].json) => Len(Progress(p).logs) <= LogCap

\* C15: however stdout is cut into chunks, every complete line is parsed once
\* and only when it is complete: nothing is handed to onProgress but the
\* progress lines of the complete lines, none of them twice, and when the
\* handlers have returned each of them has been handed over exactly once
LinesParsedOnce ==
  \A r \in DOMAIN runs :
    runs[r].pc = "running" =>
      LET expected == Expected(CompleteLines(runs[r].stream), FALSE)
          delivered == runs[r].delivered
      IN /\ \A m \in SeqToSet(delivered) : Count(delivered, m) <= Count(expected, m)
         /\ Quiescent(r) =>
              \A m \in SeqToSet(expected) : Count(delivered, m) = Count(expected, m)

\* a chunk has ended inside the result event, after a line that was delivered
SplitEventBuffered ==
  \E r \in DOMAIN runs :
    /\ runs[r].lineBuffer = <<"{">>
    /\ runs[r].out # <<>> /\ Head(runs[r].out) = "result}"
    /\ Len(runs[r].delivered) = 1

\* the instance paths createRalphInstance has returned, one for each call
Returned ==
  LET started == SelectSeq(requests, LAMBDA q : q.kind = "start" /\ q.inst # 0)
      fresh == SelectSeq(runs, LAMBDA run : run.kind = "fresh")
  IN [i \in 1..Len(started) |-> started[i].inst] \o [i \in 1..Len(fresh) |-> fresh[i].inst]

\* C16: createRalphInstance never returns the same instance path for two
\* calls, also for two calls in the same millisecond with the same slug
InstancePathsUnique ==
  \A i, j \in DOMAIN Returned : i # j => Returned[i] # Returned[j]

\* C17: report.json of an instance is written once, at a successful end, and
\* no later operation on the instance writes it again; a run that ends FAILED
\* writes none
ReportWrittenOnce ==
  /\ \A p \in DOMAIN instances : instances[p].reportWrites <= 1
  /\ \A r \in DOMAIN runs :
       (Quiescent(r) /\ ~runs[r].closeH.ok /\ runs[r].kind = "fresh") =>
         instances[runs[r].inst].report = None

\* the work directory the fresh run of the instance used
FirstWorkDir(p) == IF instances[p].worktree THEN "worktree" ELSE "project"

\* C18: a follow-up run runs the agent in the work directory the fresh run
\* used, the project root when isolation had degraded, and that directory
\* exists
FollowUpUsesFirstWorkDir ==
  \A r \in DOMAIN runs :
    (runs[r].kind = "changes" /\ runs[r].pc = "running") =>
      WorkDir(runs[r]) = FirstWorkDir(runs[r].inst) /\ WorkDirExists(runs[r])

\* createWorktree returns for request q in this step
WorktreeReturns(q) ==
  /\ requests[q].pc = "worktree"
  /\ requests' = [requests EXCEPT ![q].pc = "launch"]

\* C19: createWorktree does not raise; when git fails it returns the project
\* path (no worktree) and appends exactly one Note line to progress.md and to
\* the logs of the Progress Record
WorktreeFailureNoted ==
  [][\A q \in DOMAIN requests :
       WorktreeReturns(q) =>
         LET p == requests[q].inst
             created == ~instances[p].worktree /\ instances'[p].worktree
             note == WorktreeNote(created)
         IN /\ instances'[p].md = Append(instances[p].md, note)
            /\ Val(instances'[p].json).logs = Append(Progress(p).logs, note)
            /\ ~created => instances'[p].worktree = instances[p].worktree]_vars

\* createWorktree has returned the project path for a request: the instance
\* has no worktree and carries its one Note line
DegradedInstanceNoted ==
  \E q \in DOMAIN requests :
    /\ requests[q].kind = "start" /\ requests[q].pc = "launch"
    /\ ~instances[requests[q].inst].worktree
    /\ Count(instances[requests[q].inst].md, WorktreeNote(FALSE)) = 1
    /\ Count(Progress(requests[q].inst).logs, WorktreeNote(FALSE)) = 1

\* C20: the log text a status stream has sent so far, put together, is the
\* log text of the ticket as the last tick read it: the first tick sends the
\* whole log, each later tick what was appended since
StreamShowsLog ==
  \A q \in DOMAIN requests :
    (requests[q].kind = "status" /\ requests[q].ticks > 0) =>
      requests[q].shown = requests[q].current

\* the status stream of the ticket, if one is open: a sequence of 0 or 1
Stream == SelectSeq(requests, LAMBDA q : q.kind = "status")

\* the stream sends a message in this step
StreamSends == Stream # <<>> /\ Stream' # <<>> /\ Stream'[1].sent # Stream[1].sent

\* a sendUpdate of the stream gets to its end in this step
TickEnds == Stream # <<>> /\ Stream' # <<>> /\ Stream[1].pc = "files" /\ Stream'[1].pc # "files"

\* C21: a tick that has read COMPLETED or FAILED sends its message, sets no
\* further poll and the stream closes; a tick that has read another status
\* sends its message and sets the next poll; nothing is sent after the final
\* message, nor after the client has cancelled the stream
StreamEndsAtTerminal ==
  /\ [][/\ (TickEnds /\ ~Stream[1].cancelled) =>
             /\ Stream'[1].sent = Stream[1].sent + 1
             /\ Stream'[1].pc = IF Stream[1].status \in Terminal THEN "closing" ELSE "tick"
        /\ StreamSends =>
             /\ TickEnds
             /\ ~Stream[1].cancelled
             /\ Stream[1].pc \notin {"closing", "closed", "stopped"}
        /\ (Stream # <<>> /\ Stream[1].pc \in {"closing", "closed", "stopped"}) =>
             /\ Stream' # <<>>
             /\ Stream'[1].pc \in {"closed", "stopped"} \/ Stream'[1].pc = Stream[1].pc
        /\ (Stream # <<>> /\ Stream[1].pc = "tick" /\ Stream[1].isActive) =>
             Stream' # <<>> /\ Stream'[1].pc \in {"tick", "files"}]_vars
  /\ [](\A q \in DOMAIN requests :
          (requests[q].kind = "status" /\ requests[q].pc \in {"closing", "closed"}) =>
            requests[q].status \in Terminal /\ requests[q].sent > 0)

\* the stream has sent a final message after an earlier one and has closed
StreamClosedAfterFinal ==
  \E q \in DOMAIN requests :
    /\ requests[q].kind = "status" /\ requests[q].pc = "closed"
    /\ requests[q].sent = 2 /\ ~requests[q].cancelled
    /\ requests[q].status \in Terminal

\* C22: after a spawn error the Progress Record ends FAILED with the message
\* that names the spawn error, and the promise is rejected with that error;
\* the 'close' event that follows 'error' does not replace the message
SpawnErrorIsFinal ==
  \A r \in DOMAIN runs :
    (Quiescent(r) /\ runs[r].errored) =>
      /\ Progress(runs[r].inst).status = "FAILED"
      /\ Progress(runs[r].inst).message = SpawnErrorMessage
      /\ runs[r].promise = "rejected" /\ runs[r].error = SpawnErrorMessage

\* C23: every progress line, standard-error chunks included, goes to
\* onProgress first and to the Progress Store after it, and what the store
\* receives is what the callback received, tag included: the store is never
\* ahead of the callback, and when the handlers have returned it holds every
\* delivered line
DeliveredThenStored ==
  \A r \in DOMAIN runs :
    runs[r].pc = "running" =>
      /\ \A m \in SeqToSet(Appended(r)) : Count(Appended(r), m) <= Count(runs[r].delivered, m)
      /\ Quiescent(r) =>
           \A m \in SeqToSet(runs[r].delivered) :
             Count(Appended(r), m) = Count(runs[r].delivered, m)

\* the complete lines of a stream that are not blank and are not events
RawLines(stream) ==
  SelectSeq(CompleteLines(stream), LAMBDA l : Trim(l) # <<>> /\ ParseLine(l) = "invalid")

\* onProgress is called with a line that is not an event in this step
RawDelivered(r) ==
  /\ Len(runs'[r].delivered) = Len(runs[r].delivered) + 1
  /\ Last(runs'[r].delivered).body \in SeqToSet(RawLines(runs[r].stream))

LastReportWritten ==
  \A r \in DOMAIN runs :
    /\ IsSome(runs[r].report) =>
         Val(runs[r].report).success = (Val(runs[r].report).event # "resultErr")
    /\ (Quiescent(r) /\ runs[r].closeH.ok) =>
         LET last == Some(BuildReport(ParseLine(Last(ResultLines(runs[r].stream)))))
         IN /\ instances[runs[r].inst].report = last
            /\ instances[runs[r].inst].reportMd = last

\* the progress callback j of run r writes the ticket's log text in this step
CallbackWrites(r, j) ==
  /\ j \in DOMAIN runs[r].callbacks
  /\ runs[r].callbacks[j].pc = "write"
  /\ runs'[r].callbacks = RemoveAt(runs[r].callbacks, j)

\* C26: a write of the log text by the progress callback stores the text it
\* read followed by the new line when that text has at most 50,000
\* characters, otherwise its last 40,000 characters followed by the new line;
\* the text it stores is at most 50,000 characters and the new line long
LogTextBounded ==
  [][\A r \in DOMAIN runs : \A j \in DOMAIN runs[r].callbacks :
       CallbackWrites(r, j) =>
         LET c == runs[r].callbacks[j]
             kept == IF TextLen(c.logs) <= LogCeiling THEN c.logs
                     ELSE SliceLast(c.logs, LogWindow)
         IN /\ ticket'.ralphLogs = Append(kept, Segment(c.log))
            /\ TextLen(kept) = IF TextLen(c.logs) <= LogCeiling THEN TextLen(c.logs)
                               ELSE LogWindow
            /\ TextLen(ticket'.ralphLogs) <= LogCeiling + Segment(c.log).len]_vars

\* the callback has cut a text of more than 50,000 characters down to its
\* last 40,000 and appended the new line
LogTextCut ==
  /\ Len(ticket.ralphLogs) > 1
  /\ Head(ticket.ralphLogs).len < Segment(Head(ticket.ralphLogs).text).len
  /\ TextLen(Front(ticket.ralphLogs)) = LogWindow
  /\ Last(ticket.ralphLogs) = Segment(Msg("", BigLine))

\* C27: whenever an agent subprocess of the ticket is running, ralphStatus is
\* LAUNCHING or RUNNING and ralphInstancePath is set, whatever start,
\* follow-up, cancel and reject requests have been served
LiveRunIsActive ==
  \A r \in DOMAIN runs :
    runs[r].proc = "live" =>
      ticket.ralphStatus \in Active /\ ticket.ralphInstancePath # 0

\* C28: once a run has settled (process closed, handlers, callbacks and the
\* route's .then / .catch returned, no request in flight), ralphStatus of the
\* ticket is the status of the Progress Record, also when a cancel request
\* found the run's process and signalled it
TicketAgreesWithProgress ==
  \A r \in DOMAIN runs :
    (/\ Settled(r) /\ requests = <<>>
     /\ cancelLog.calls > 0 => cancelLog.returned) =>
      ticket.ralphStatus = Progress(runs[r].inst).status

\* the result events of the run all carry the error flag
Flagged(r) ==
  /\ ResultLines(runs[r].stream) # <<>>
  /\ \A i \in DOMAIN ResultLines(runs[r].stream) :
       ParseLine(ResultLines(runs[r].stream)[i]) = "resultErr"

\* C29: a run whose result event carries the error flag is never recorded as
\* COMPLETED in the Progress Record and its ticket is never moved to
\* IN_TESTING, whatever the exit code
FlaggedRunNotCompleted ==
  \A r \in DOMAIN runs :
    (runs[r].pc = "running" /\ Flagged(r)) =>
      /\ Progress(runs[r].inst).status # "COMPLETED"
      /\ ticket.status # "IN_TESTING"
      /\ ticket.ralphStatus # "COMPLETED"

\* C30: for every instance whose worktree was created, the branch name the
\* merge and reject routes derive from the instance path, and the one the
\* follow-up route derives, is the name of the branch createWorktree created
BranchNamesAgree ==
  \A p \in DOMAIN instances :
    instances[p].worktree =>
      /\ ChangesBranchName(instances[p].name) = instances[p].branch
      /\ MergeBranchName(instances[p].name) = instances[p].branch

====
